---- MODULE Spec2Model ----
(***************************************************************************)
(* Model of the python-scheduler batch pipeline: the partitioned lake      *)
(* (history / inspection day files), the master catalogs and the           *)
(* glass_stats statistics table written by the aggregation queries.        *)
(*                                                                         *)
(* Text values (product ids, model codes, panel addresses) are sequences   *)
(* of one-character strings, so that substr() and ascii() are computed.    *)
(* A timestamp is the pair <<calendar day, time of day>>.                  *)
(***************************************************************************)
EXTENDS Integers, Sequences, FiniteSets, TLC

VARIABLES
    history,             \* day -> rows of the history day file ({} = no file)
    inspection,          \* day -> rows of the inspection day file ({} = no file)
    glass_stats,         \* <<product_id, defect_name>> -> stored row
    ref_tables,          \* the part_no / pnl_map reference tables, or NoTables
    model_master,        \* model_code -> [updated_at]
    defect_master,       \* defect_name -> [updated_at]
    model_layout_master, \* model_code -> [ref_panels, updated_at]
    analytics_defect_master, \* defect_master of update_defect_master.py (DB_PATH)
    db_tables,           \* names of the catalog tables created so far
    now,                 \* the database clock read by now() / CURRENT_TIMESTAMP
    lastOp,              \* what the last step was, and how it ended
    enc,                 \* panel address encoder: [addr, result, done]
    buckets,             \* history lake of get_history_data: <<model, bucket, day>> -> rows
    analytics_glass_stats, \* glass_stats of get_history_data.py (DB_PATH): product_id -> row
    io,                  \* the last lake write as its caller saw it
    run,                 \* the batch entry point being run: its range and position
    config,              \* what load_app_config() returns: the parsed file, or None
    effects,             \* the entry point invoked last and the I/O it reached
    scan                 \* DynamoDB.query: the remote pages and the position of the read loop

vars == <<history, inspection, glass_stats, ref_tables, model_master,
          defect_master, model_layout_master, analytics_defect_master,
          db_tables, now, lastOp, enc, buckets, analytics_glass_stats, io, run,
          config, effects, scan>>

lakeVars == <<history, inspection>>
histVars == <<buckets, analytics_glass_stats>>
cfgVars == <<config, effects, scan>>
catalogVars == <<ref_tables, model_master, defect_master, model_layout_master,
                 analytics_defect_master, db_tables>>

(***************************************************************************)
(* Bounds                                                                  *)
(***************************************************************************)
MaxClock == 5        \* steps (clock ticks) of one behaviour
MaxCatalogSteps == 4 \* steps of one behaviour of the catalog specification

\* the calendar days of the date range
Days == {1, 2}

\* SQL NULL; every text value is a non-empty sequence of characters
NULL == <<>>
Facility == "P8"

(***************************************************************************)
(* Values                                                                  *)
(***************************************************************************)
P1 == <<"G", "1", "M", "1">>
P2 == <<"G", "2", "M", "2">>
P3 == <<"G", "3", "M", "1">>
A1 == <<"A", "1">>
A2 == <<"A", "2">>
B1 == <<"B", "1">>
D1 == <<"D", "1">>
D2 == <<"D", "2">>

Min(a, b) == IF a <= b THEN a ELSE b

\* SQL substr(s, start, len), 1-based, clipped at the end of the text
Substr(s, start, len) == SubSeq(s, start, Min(Len(s), start + len - 1))

\* strftime(ts, '%Y-%m-%d'): the calendar-day part of a timestamp
DayOf(ts) == ts[1]

\* ordering of timestamps (day first, then time of day)
TsLeq(a, b) == a[1] < b[1] \/ (a[1] = b[1] /\ a[2] <= b[2])

\* SQL MAX over a non-empty set of timestamps
MaxTs(S) == CHOOSE t \in S : \A u \in S : TsLeq(u, t)

RECURSIVE SumOver(_, _)
\* SQL SUM(f) over the rows of S (f is a function on S)
SumOver(S, f) ==
    IF S = {} THEN 0
    ELSE LET x == CHOOSE y \in S : TRUE
         IN f[x] + SumOver(S \ {x}, f)

\* every ordering of a finite set as a sequence
Perms(S) ==
    {s \in [1..Cardinality(S) -> S] : \A i, j \in 1..Cardinality(S) : s[i] = s[j] => i = j}

(***************************************************************************)
(* Remote rows and the batches ingestion can write for a day               *)
(***************************************************************************)
HRow(p, d, n) ==
    [facility_code |-> Facility, product_id |-> p, model_code |-> Substr(p, 3, 2),
     lot_id |-> <<"L", ToString(d), ToString(n)>>, move_in_ymdhms |-> <<d, n>>,
     process_code |-> <<"C", ToString(d), ToString(n)>>,
     equipment_line_id |-> <<"E", "L", ToString(d), ToString(n)>>,
     equipment_machine_id |-> <<"E", "M", ToString(d), ToString(n)>>,
     equipment_path_id |-> <<"E", "P", ToString(d), ToString(n)>>]

IRow(p, dn, a, d, n) ==
    [facility_code |-> Facility, product_id |-> p, defect_name |-> dn,
     panel_addr |-> a, inspection_end_ymdhms |-> <<d, n>>]

HistoryBatches(d) ==
    { {HRow(P1, d, 1)},
      {HRow(P2, d, 1)},
      {HRow(P1, d, 1), HRow(P2, d, 2)} }

InspectionBatches(d) ==
    { {IRow(P1, D1, A1, d, 1)},
      {IRow(P1, D1, A1, d, 1), IRow(P1, D1, A1, d, 2), IRow(P1, D1, A2, d, 3),
       IRow(P2, D2, B1, d, 4)},
      {IRow(P1, D2, NULL, d, 1), IRow(P1, NULL, A1, d, 2), IRow(P3, D2, A2, d, 3)} }

(***************************************************************************)
(* Reading the lake                                                        *)
(***************************************************************************)
\* read_parquet over a glob: all rows of all files
ReadAll(files) == UNION {files[d] : d \in Days}

\* read_parquet raises when the glob matches no file
NoFiles(files) == \A d \in Days : files[d] = {}

\* the reference tables before anyone created them
NoTables == [exists |-> FALSE, part_no |-> {}, pnl_map |-> {}]
Empty == [k \in {} |-> NULL]

\* lastOp: the kind of the last step, its target day, whether its statements
\* completed, and whether it repeats the step before it (same kind and day)
Idle == [kind |-> "init", day |-> 0, ok |-> TRUE, rerun |-> FALSE]

Repeats(kind, D) == lastOp.kind = kind /\ lastOp.day = D

\* io: which writer ran last, the batch and day it was given, whether the
\* file write raised inside it, and what its caller got back
NoWrite == [writer |-> "none", table_type |-> "none", df |-> {}, day |-> 0,
            raised |-> FALSE, returned |-> "None"]

\* run: the entry point, its --start and --end, the loop variable curr, the
\* days it processed in order, those whose processing raised, and whether
\* it returned
NoRun == [job |-> "none", start |-> 0, end |-> 0, curr |-> 0, days |-> <<>>,
          failed |-> {}, done |-> TRUE]

\* config: None (the file could not be read or parsed), or the mappings the
\* entry points look up in it
FullConfig == [loaded |-> TRUE, history_table |-> TRUE, inspection_table |-> TRUE,
               analysis |-> TRUE]

\* effects: no entry point was invoked yet
NoEffects == [job |-> "none", io |-> {}]

\* a scan response: its Items and its LastEvaluatedKey (0: the key is absent)
NoResponse == [received |-> FALSE, Items |-> <<>>, LastEvaluatedKey |-> 0]

\* scan: the pages the remote table answers with, the request that raises
\* (0: none), the ExclusiveStartKey of each request sent (0: none), the last
\* response, the items collected, and what query returned
NoScan == [pages |-> <<>>, failAt |-> 0, requests |-> <<>>, response |-> NoResponse,
           data |-> <<>>, returned |-> FALSE, raised |-> FALSE, Items |-> <<>>]

InitHist ==
    /\ buckets = Empty
    /\ analytics_glass_stats = Empty
    /\ io = NoWrite
    /\ run = NoRun
    /\ config = FullConfig
    /\ effects = NoEffects
    /\ scan = NoScan

Init ==
    /\ history = [d \in Days |-> {}]
    /\ inspection = [d \in Days |-> {}]
    /\ glass_stats = Empty
    /\ ref_tables = NoTables
    /\ model_master = Empty
    /\ defect_master = Empty
    /\ model_layout_master = Empty
    /\ analytics_defect_master = Empty
    /\ db_tables = {}
    /\ now = 0
    /\ lastOp = Idle
    /\ enc = [addr |-> NULL, result |-> NULL, done |-> FALSE]
    /\ InitHist

(***************************************************************************)
(* Ingestion: save_to_parquet writes the day file of a dataset; an empty   *)
(* batch is a no-op, a second write of the same day replaces the file, and *)
(* an exception of the file write is caught and logged inside the writer,  *)
(* which returns None on every path.                                       *)
(***************************************************************************)
save_to_parquet(files, df, target_date, raised) ==
    IF df = {} \/ raised THEN files ELSE [files EXCEPT ![target_date] = df]

\* what the caller of save_to_parquet holds after the call
SaveCall(table_type, df, d, raised) ==
    [writer |-> "save_to_parquet", table_type |-> table_type, df |-> df,
     day |-> d, raised |-> raised, returned |-> "None"]

\* df.to_parquet is reached only with a non-empty batch
WriteOutcomes(df) == IF df = {} THEN {FALSE} ELSE BOOLEAN

IngestHistory(d, df) ==
    \E raised \in WriteOutcomes(df) :
        /\ history' = save_to_parquet(history, df, d, raised)
        /\ io' = SaveCall("history", df, d, raised)
        /\ lastOp' = [kind |-> "ingest", day |-> 0, ok |-> TRUE, rerun |-> FALSE]
        /\ UNCHANGED <<inspection, glass_stats, catalogVars, enc, histVars>>

IngestInspection(d, df) ==
    \E raised \in WriteOutcomes(df) :
        /\ inspection' = save_to_parquet(inspection, df, d, raised)
        /\ io' = SaveCall("inspection", df, d, raised)
        /\ lastOp' = [kind |-> "ingest", day |-> 0, ok |-> TRUE, rerun |-> FALSE]
        /\ UNCHANGED <<history, glass_stats, catalogVars, enc, histVars>>

\* every step takes time: the clock ticks, and the behaviour ends at MaxClock
Tick ==
    /\ now < MaxClock
    /\ now' = now + 1

Ingest ==
    /\ Tick
    /\ \E d \in Days :
        \/ \E df \in HistoryBatches(d) \cup {{}} : IngestHistory(d, df)
        \/ \E df \in InspectionBatches(d) \cup {{}} : IngestInspection(d, df)

(***************************************************************************)
(* run_daily_analysis.py: the per-day INSERT ... ON CONFLICT statement     *)
(***************************************************************************)
\* CTE target_inspection: the day's rows with a defect name
target_inspection(D) ==
    {r \in ReadAll(inspection) :
        DayOf(r.inspection_end_ymdhms) = D /\ r.defect_name /= NULL}

\* CTE target_history: every history row of the facility (no date filter)
target_history ==
    {h \in ReadAll(history) : h.facility_code = Facility}

\* the rows of one (product_id, defect_name, panel_addr) group
AddrGroup(T, r) ==
    {q \in T : /\ q.product_id = r.product_id
               /\ q.defect_name = r.defect_name
               /\ q.panel_addr = r.panel_addr}

\* CTE inner_stats: one row per (product_id, defect_name, model_code, panel_addr)
inner_stats(D) ==
    LET T == {r \in target_inspection(D) : r.panel_addr /= NULL}
    IN {[product_id |-> r.product_id,
         defect_name |-> r.defect_name,
         model_code |-> Substr(r.product_id, 3, 2),
         inspection_end_ymdhms |->
             MaxTs({q.inspection_end_ymdhms : q \in AddrGroup(T, r)}),
         panel_addr |-> r.panel_addr,
         addr_count |-> Cardinality(AddrGroup(T, r))] : r \in T}

\* the inner_stats rows of one (product_id, defect_name, model_code) group
DefectGroup(S, g) ==
    {s \in S : /\ s.product_id = g[1]
               /\ s.defect_name = g[2]
               /\ s.model_code = g[3]}

GroupKeys(S) == {<<s.product_id, s.defect_name, s.model_code>> : s \in S}

\* list() aggregates in no specified order: every order the two parallel
\* lists of a group can come out in, one order per group
ListOrders(S) ==
    {ord \in [GroupKeys(S) -> UNION {Perms(DefectGroup(S, g)) : g \in GroupKeys(S)}] :
        \A g \in GroupKeys(S) : ord[g] \in Perms(DefectGroup(S, g))}

\* grouped_defects with total_defects taken as COUNT(*) of the group's
\* inner_stats rows (the distinct addresses) instead of SUM(addr_count)
grouped_defects_CountAddresses(D, ord) ==
    LET S == inner_stats(D)
    IN {[product_id |-> g[1],
         defect_name |-> g[2],
         model_code |-> g[3],
         inspection_time |->
             MaxTs({s.inspection_end_ymdhms : s \in DefectGroup(S, g)}),
         total_defects |-> Cardinality(DefectGroup(S, g)),
         panel_addrs |-> [i \in 1..Len(ord[g]) |-> ord[g][i].panel_addr],
         panel_map |-> [i \in 1..Len(ord[g]) |-> ord[g][i].addr_count]] : g \in GroupKeys(S)}

\* CTE grouped_defects
grouped_defects(D, ord) ==
    LET S == inner_stats(D)
    IN {[product_id |-> g[1],
         defect_name |-> g[2],
         model_code |-> g[3],
         inspection_time |->
             MaxTs({s.inspection_end_ymdhms : s \in DefectGroup(S, g)}),
         total_defects |->
             SumOver(DefectGroup(S, g), [s \in DefectGroup(S, g) |-> s.addr_count]),
         panel_addrs |-> [i \in 1..Len(ord[g]) |-> ord[g][i].panel_addr],
         panel_map |-> [i \in 1..Len(ord[g]) |-> ord[g][i].addr_count]] : g \in GroupKeys(S)}

\* the history side of a LEFT JOIN row without a match
NullHistory ==
    [facility_code |-> NULL, product_id |-> NULL, model_code |-> NULL,
     lot_id |-> NULL, move_in_ymdhms |-> NULL, process_code |-> NULL,
     equipment_line_id |-> NULL, equipment_machine_id |-> NULL,
     equipment_path_id |-> NULL]

\* grouped_defects d LEFT JOIN target_history h ON d.product_id = h.product_id
HistoryMatches(d) ==
    LET Hs == {h \in target_history : h.product_id = d.product_id}
    IN IF Hs = {} THEN {NullHistory} ELSE Hs

\* the SELECT list of the INSERT
SelectRow(d, h) ==
    [product_id |-> d.product_id,
     defect_name |-> d.defect_name,
     model_code |-> d.model_code,
     lot_id |-> h.lot_id,
     work_time |-> h.move_in_ymdhms,
     inspection_time |-> d.inspection_time,
     process_code |-> h.process_code,
     equipment_line_id |-> h.equipment_line_id,
     equipment_machine_id |-> h.equipment_machine_id,
     equipment_path_id |-> h.equipment_path_id,
     total_defects |-> d.total_defects,
     panel_map |-> d.panel_map,
     panel_addrs |-> d.panel_addrs]

AnalysisRows(D, ord) ==
    UNION {{SelectRow(d, h) : h \in HistoryMatches(d)} : d \in grouped_defects(D, ord)}

KeyOf(row) == <<row.product_id, row.defect_name>>

RowKeys(rows) == {KeyOf(r) : r \in rows}

\* several proposed rows carry the same primary key
HasDuplicateKeys(rows) ==
    \E r1, r2 \in rows : r1 /= r2 /\ KeyOf(r1) = KeyOf(r2)

\* one proposed row per key: with duplicate keys the engine either rejects
\* the statement or lets one of the duplicates (ORDER BY leaves ties open) win
Picks(rows) ==
    {pick \in [RowKeys(rows) -> rows] : \A k \in RowKeys(rows) : KeyOf(pick[k]) = k}

\* the conflict rule with total_defects replaced instead of accumulated
ConflictUpdate_Replace(old, new, t) ==
    [old EXCEPT !.model_code = new.model_code,
                !.lot_id = new.lot_id,
                !.inspection_time = new.inspection_time,
                !.process_code = new.process_code,
                !.equipment_line_id = new.equipment_line_id,
                !.equipment_machine_id = new.equipment_machine_id,
                !.equipment_path_id = new.equipment_path_id,
                !.total_defects = new.total_defects,
                !.panel_map = old.panel_map \o new.panel_map,
                !.panel_addrs = old.panel_addrs \o new.panel_addrs,
                !.created_at = t]

\* ON CONFLICT (product_id, defect_name) DO UPDATE SET ...
ConflictUpdate(old, new, t) ==
    [old EXCEPT !.model_code = new.model_code,
                !.lot_id = new.lot_id,
                !.inspection_time = new.inspection_time,
                !.process_code = new.process_code,
                !.equipment_line_id = new.equipment_line_id,
                !.equipment_machine_id = new.equipment_machine_id,
                !.equipment_path_id = new.equipment_path_id,
                !.total_defects = old.total_defects + new.total_defects,
                !.panel_map = old.panel_map \o new.panel_map,
                !.panel_addrs = old.panel_addrs \o new.panel_addrs,
                !.created_at = t]

\* a row inserted without conflict
InsertRow(new, t) ==
    [product_id |-> new.product_id,
     defect_name |-> new.defect_name,
     model_code |-> new.model_code,
     lot_id |-> new.lot_id,
     work_time |-> new.work_time,
     inspection_time |-> new.inspection_time,
     process_code |-> new.process_code,
     equipment_line_id |-> new.equipment_line_id,
     equipment_machine_id |-> new.equipment_machine_id,
     equipment_path_id |-> new.equipment_path_id,
     total_defects |-> new.total_defects,
     panel_map |-> new.panel_map,
     panel_addrs |-> new.panel_addrs,
     created_at |-> t]

\* the table after the statement applied one row per key
Upsert(table, pick, t) ==
    [k \in DOMAIN table \cup DOMAIN pick |->
        IF k \notin DOMAIN pick THEN table[k]
        ELSE IF k \in DOMAIN table THEN ConflictUpdate(table[k], pick[k], t)
        ELSE InsertRow(pick[k], t)]

\* con.execute(query) raised: caught and logged, nothing written
AnalysisFails(D) ==
    /\ glass_stats' = glass_stats
    /\ lastOp' = [kind |-> "analysis", day |-> D, ok |-> FALSE,
                 rerun |-> Repeats("analysis", D)]

AnalysisApplies(D, pick) ==
    /\ glass_stats' = Upsert(glass_stats, pick, now')
    /\ lastOp' = [kind |-> "analysis", day |-> D, ok |-> TRUE,
                 rerun |-> Repeats("analysis", D)]

\* one iteration of the date loop of run_daily_analysis.main
RunDailyAnalysis(D) ==
    /\ Tick
    /\ UNCHANGED <<lakeVars, catalogVars, enc, histVars, io>>
    /\ IF NoFiles(inspection) \/ NoFiles(history)
       THEN AnalysisFails(D)
       ELSE \E ord \in ListOrders(inner_stats(D)) :
                LET rows == AnalysisRows(D, ord)
                IN \/ HasDuplicateKeys(rows) /\ AnalysisFails(D)
                   \/ \E pick \in Picks(rows) : AnalysisApplies(D, pick)

Next ==
    \/ Ingest /\ UNCHANGED <<run, cfgVars>>
    \/ (\E D \in Days : RunDailyAnalysis(D)) /\ UNCHANGED <<run, cfgVars>>

Spec == Init /\ [][Next]_vars

(***************************************************************************)
(* daily_metadata_job.py: the master catalogs                              *)
(***************************************************************************)
L3 == <<A1, A2, B1>>
L2 == <<A2, A1>>
M1 == <<"M", "1">>
M2 == <<"M", "2">>
PN1 == <<"P", "N", "1">>
PN2 == <<"P", "N", "2">>
PN3 == <<"P", "N", "3">>

PartNo(m, pn) == [model_code |-> m, part_no_name |-> pn]
PnlMap(pn, l) == [part_no_name |-> pn, ref_panels |-> l]

\* contents the part_no / pnl_map reference tables can have
RefChoices ==
    { [exists |-> TRUE,
       part_no |-> {PartNo(M1, PN1)},
       pnl_map |-> {PnlMap(PN1, L3)}],
      [exists |-> TRUE,
       part_no |-> {PartNo(M1, PN1), PartNo(M1, PN2), PartNo(M2, PN3)},
       pnl_map |-> {PnlMap(PN1, L3), PnlMap(PN2, L2), PnlMap(PN3, NULL)}],
      [exists |-> TRUE,
       part_no |-> {PartNo(M1, PN1), PartNo(M1, PN3), PartNo(M2, PN2)},
       pnl_map |-> {PnlMap(PN1, L2), PnlMap(PN3, NULL), PnlMap(PN2, L2)}] }

\* the reference tables are created or reloaded by their owner
LoadRefTables(r) ==
    /\ Tick
    /\ ref_tables' = r
    /\ lastOp' = [kind |-> "load", day |-> 0, ok |-> TRUE, rerun |-> FALSE]
    /\ UNCHANGED <<lakeVars, glass_stats, model_master, defect_master,
                   model_layout_master, analytics_defect_master, db_tables, enc, histVars, io>>

\* a refresh that rebuilds the catalog from the selected keys alone
UpsertKeys_Rebuild(table, keys, t) ==
    [k \in keys |-> [updated_at |-> t]]

\* INSERT ... ON CONFLICT (key) DO UPDATE SET updated_at = now()
\* keys: the selected keys; a NULL key violates the PRIMARY KEY
UpsertKeys(table, keys, t) ==
    [k \in DOMAIN table \cup keys |->
        IF k \in keys THEN [updated_at |-> t] ELSE table[k]]

\* SELECT DISTINCT model_code FROM history WHERE facility AND day
ModelSelect(D) ==
    {h.model_code : h \in {r \in ReadAll(history) :
        r.facility_code = Facility /\ DayOf(r.move_in_ymdhms) = D}}

\* SELECT DISTINCT defect_name FROM inspection WHERE day AND defect_name NOT NULL
DefectSelect(D) ==
    {r.defect_name : r \in {q \in ReadAll(inspection) :
        DayOf(q.inspection_end_ymdhms) = D /\ q.defect_name /= NULL}}

\* the model catalog statement raises: no history file, or a NULL key
ModelUpsertFails(D) == NoFiles(history) \/ NULL \in ModelSelect(D)

\* the defect catalog statement raises: no inspection file
DefectUpsertFails(D) == NoFiles(inspection)

\* 1. Model Master statement
ModelUpsert(table, D, t) == UpsertKeys(table, ModelSelect(D), t)

\* 2. Defect Master statement
DefectUpsert(table, D, t) == UpsertKeys(table, DefectSelect(D), t)

\* update_masters: both statements stand in one try block, so the defect
\* statement is reached only when the model statement did not raise
update_masters_model(D, t) ==
    IF ModelUpsertFails(D) THEN model_master ELSE ModelUpsert(model_master, D, t)

update_masters_defect(D, t) ==
    IF ModelUpsertFails(D) \/ DefectUpsertFails(D) THEN defect_master
    ELSE DefectUpsert(defect_master, D, t)

\* the join without its IS NOT NULL filter
LayoutJoin_KeepNull(r) ==
    {<<pn, pm>> \in r.part_no \X r.pnl_map : pn.part_no_name = pm.part_no_name}

\* part_no pn JOIN pnl_map pm ON part_no_name WHERE pm.ref_panels IS NOT NULL
LayoutJoin(r) ==
    {<<pn, pm>> \in r.part_no \X r.pnl_map :
        pn.part_no_name = pm.part_no_name /\ pm.ref_panels /= NULL}

LayoutModels(r) == {j[1].model_code : j \in LayoutJoin(r)}

\* the ref_panels values of one model's group
LayoutValues(r, m) == {j[2].ref_panels : j \in {x \in LayoutJoin(r) : x[1].model_code = m}}

\* ANY_VALUE(pm.ref_panels) GROUP BY pn.model_code: any value of each group
LayoutSelects(r) ==
    {sel \in [LayoutModels(r) -> UNION {LayoutValues(r, m) : m \in LayoutModels(r)}] :
        \A m \in LayoutModels(r) : sel[m] \in LayoutValues(r, m)}

\* the layout statement raises: a reference table is missing, or a NULL key
LayoutUpsertFails(r) == ~r.exists \/ NULL \in LayoutModels(r)

\* ON CONFLICT (model_code) DO UPDATE SET ref_panels = EXCLUDED.ref_panels
LayoutUpsert(table, sel, t) ==
    [m \in DOMAIN table \cup DOMAIN sel |->
        IF m \in DOMAIN sel THEN [ref_panels |-> sel[m], updated_at |-> t]
        ELSE table[m]]

\* update_model_layout_link: the table is created, then the statement runs
\* inside its own try block
update_model_layout_link(sel, t) ==
    IF LayoutUpsertFails(ref_tables) THEN model_layout_master
    ELSE LayoutUpsert(model_layout_master, sel, t)

\* the ANY_VALUE outcomes of this run (one dummy outcome when it raises)
LayoutOutcomes ==
    IF LayoutUpsertFails(ref_tables) THEN {Empty} ELSE LayoutSelects(ref_tables)

\* daily_metadata_job.main: update_masters, then update_model_layout_link
MetadataJob(D) ==
    /\ Tick
    /\ model_master' = update_masters_model(D, now')
    /\ defect_master' = update_masters_defect(D, now')
    /\ \E sel \in LayoutOutcomes :
           model_layout_master' = update_model_layout_link(sel, now')
    /\ db_tables' = db_tables \cup {"model_master", "defect_master", "model_layout_master"}
    /\ lastOp' = [kind |-> "metadata", day |-> D,
                  ok |-> ~(ModelUpsertFails(D) \/ DefectUpsertFails(D)
                           \/ LayoutUpsertFails(ref_tables)),
                  rerun |-> Repeats("metadata", D)]
    /\ UNCHANGED <<lakeVars, glass_stats, ref_tables, analytics_defect_master, enc, histVars, io>>

(***************************************************************************)
(* update_defect_master.py: the defect catalog of the analytics database   *)
(***************************************************************************)
\* SELECT DISTINCT defect_name ... WHERE facility AND day AND NOT NULL
daily_defects(D) ==
    {r.defect_name : r \in {q \in ReadAll(inspection) :
        /\ q.facility_code = Facility
        /\ DayOf(q.inspection_end_ymdhms) = D
        /\ q.defect_name /= NULL}}

\* one iteration of the date loop of update_defect_master.main
UpdateDefectMasterDay(D) ==
    /\ Tick
    /\ analytics_defect_master' =
           IF NoFiles(inspection) THEN analytics_defect_master
           ELSE UpsertKeys(analytics_defect_master, daily_defects(D), now')
    /\ lastOp' = [kind |-> "defects", day |-> D, ok |-> ~NoFiles(inspection),
                  rerun |-> Repeats("defects", D)]
    /\ UNCHANGED <<lakeVars, glass_stats, ref_tables, model_master, defect_master,
                   model_layout_master, db_tables, enc, histVars, io>>

\* a catalog run starts with the reference tables in any of their states
InitRef ==
    /\ Init!1 /\ Init!2 /\ Init!3
    /\ ref_tables \in RefChoices \cup {NoTables}
    /\ model_master = Empty
    /\ defect_master = Empty
    /\ model_layout_master = Empty
    /\ analytics_defect_master = Empty
    /\ db_tables = {}
    /\ now = 0
    /\ lastOp = Idle
    /\ enc = [addr |-> NULL, result |-> NULL, done |-> FALSE]
    /\ InitHist

CatalogStepsLeft == now < MaxCatalogSteps

NextCat ==
    \/ CatalogStepsLeft /\ Ingest /\ UNCHANGED <<run, cfgVars>>
    \/ CatalogStepsLeft /\ (\E r \in RefChoices : LoadRefTables(r)) /\ UNCHANGED <<run, cfgVars>>
    \/ CatalogStepsLeft /\ (\E D \in Days : MetadataJob(D)) /\ UNCHANGED <<run, cfgVars>>
    \/ CatalogStepsLeft /\ (\E D \in Days : UpdateDefectMasterDay(D)) /\ UNCHANGED <<run, cfgVars>>

SpecCat == InitRef /\ [][NextCat]_vars

(***************************************************************************)
(* daily_metadata_job.get_full_grid_analysis_query: the full-grid INSERT   *)
(***************************************************************************)
UNKNOWN == <<"U", "N", "K", "N", "O", "W", "N">>

\* CAST(ts AS DATE)
DateOf(ts) == IF ts = NULL THEN NULL ELSE <<ts[1]>>

\* CTE inner_stats: one row per (product_id, defect_name, panel_addr)
inner_stats_grid(D) ==
    LET T == {r \in target_inspection(D) : r.panel_addr /= NULL}
    IN {[product_id |-> r.product_id,
         defect_name |-> r.defect_name,
         panel_addr |-> r.panel_addr,
         addr_count |-> Cardinality(AddrGroup(T, r))] : r \in T}

\* the inner_stats rows of one (product_id, defect_name) group
DefectGroupGrid(S, g) ==
    {s \in S : s.product_id = g[1] /\ s.defect_name = g[2]}

GroupKeysGrid(S) == {<<s.product_id, s.defect_name>> : s \in S}

\* one list() order per group, as in ListOrders
ListOrdersGrid(S) ==
    {ord \in [GroupKeysGrid(S) ->
                 UNION {Perms(DefectGroupGrid(S, g)) : g \in GroupKeysGrid(S)}] :
        \A g \in GroupKeysGrid(S) : ord[g] \in Perms(DefectGroupGrid(S, g))}

\* CTE grouped_defects; defect_map_obj = MAP(list(panel_addr), list(addr_count))
grouped_defects_grid(D, ord) ==
    LET S == inner_stats_grid(D)
    IN {[product_id |-> g[1],
         defect_name |-> g[2],
         total_defects |->
             SumOver(DefectGroupGrid(S, g),
                     [s \in DefectGroupGrid(S, g) |-> s.addr_count]),
         obs_addrs |-> [i \in 1..Len(ord[g]) |-> ord[g][i].panel_addr],
         obs_counts |-> [i \in 1..Len(ord[g]) |-> ord[g][i].addr_count],
         defect_map_obj |->
             [a \in {s.panel_addr : s \in DefectGroupGrid(S, g)} |->
                 (CHOOSE s \in DefectGroupGrid(S, g) : s.panel_addr = a).addr_count]]
        : g \in GroupKeysGrid(S)}

\* CTE layout_info: target_history h LEFT JOIN model_layout_master m
layout_info ==
    {[product_id |-> h.product_id,
      ref_panels |-> IF h.model_code \in DOMAIN model_layout_master
                     THEN model_layout_master[h.model_code].ref_panels
                     ELSE <<>>] : h \in target_history}

\* ... LEFT JOIN layout_info l ON d.product_id = l.product_id
LayoutMatches(d) ==
    LET Ls == {l \in layout_info : l.product_id = d.product_id}
    IN IF Ls = {} THEN {[product_id |-> NULL, ref_panels |-> NULL]} ELSE Ls

\* the layout branch filled by position instead of by panel address
FullGridMap_ByPosition(d, ref_panels) ==
    [i \in 1..Len(ref_panels) |->
        IF i <= Len(d.obs_counts) THEN d.obs_counts[i] ELSE 0]

\* list_transform(ref_panels, x ->
\*     COALESCE(list_extract(element_at(defect_map_obj, x), 1), 0))
FullGridMap(d, ref_panels) ==
    [i \in 1..Len(ref_panels) |->
        IF ref_panels[i] \in DOMAIN d.defect_map_obj
        THEN d.defect_map_obj[ref_panels[i]] ELSE 0]

\* the SELECT list of the full-grid INSERT
SelectRowGrid(d, h, l) ==
    [product_id |-> d.product_id,
     defect_name |-> d.defect_name,
     model_code |-> IF h.model_code = NULL THEN UNKNOWN ELSE h.model_code,
     lot_id |-> h.lot_id,
     work_date |-> DateOf(h.move_in_ymdhms),
     total_defects |-> d.total_defects,
     panel_map |-> IF Len(l.ref_panels) > 0 THEN FullGridMap(d, l.ref_panels)
                   ELSE d.obs_counts,
     panel_addrs |-> IF Len(l.ref_panels) > 0 THEN l.ref_panels ELSE d.obs_addrs]

FullGridRows(D, ord) ==
    UNION {{SelectRowGrid(d, h, l) : h \in HistoryMatches(d), l \in LayoutMatches(d)}
              : d \in grouped_defects_grid(D, ord)}

\* the conflict rule with panel_addrs replaced instead of concatenated
ConflictUpdateGrid_ReplaceAddrs(old, new, t) ==
    [old EXCEPT !.model_code = new.model_code,
                !.lot_id = new.lot_id,
                !.total_defects = old.total_defects + new.total_defects,
                !.panel_map = old.panel_map \o new.panel_map,
                !.panel_addrs = new.panel_addrs,
                !.created_at = t]

\* ON CONFLICT (product_id, defect_name) DO UPDATE SET ...
ConflictUpdateGrid(old, new, t) ==
    [old EXCEPT !.model_code = new.model_code,
                !.lot_id = new.lot_id,
                !.total_defects = old.total_defects + new.total_defects,
                !.panel_map = old.panel_map \o new.panel_map,
                !.panel_addrs = old.panel_addrs \o new.panel_addrs,
                !.created_at = t]

InsertRowGrid(new, t) ==
    [product_id |-> new.product_id,
     defect_name |-> new.defect_name,
     model_code |-> new.model_code,
     lot_id |-> new.lot_id,
     work_date |-> new.work_date,
     total_defects |-> new.total_defects,
     panel_map |-> new.panel_map,
     panel_addrs |-> new.panel_addrs,
     created_at |-> t]

UpsertGrid(table, pick, t) ==
    [k \in DOMAIN table \cup DOMAIN pick |->
        IF k \notin DOMAIN pick THEN table[k]
        ELSE IF k \in DOMAIN table THEN ConflictUpdateGrid(table[k], pick[k], t)
        ELSE InsertRowGrid(pick[k], t)]

FullGridFails(D) ==
    /\ glass_stats' = glass_stats
    /\ lastOp' = [kind |-> "grid", day |-> D, ok |-> FALSE,
                  rerun |-> Repeats("grid", D)]

FullGridApplies(D, pick) ==
    /\ glass_stats' = UpsertGrid(glass_stats, pick, now')
    /\ lastOp' = [kind |-> "grid", day |-> D, ok |-> TRUE,
                  rerun |-> Repeats("grid", D)]

\* the full-grid statement executed for one day
FullGridRun(D) ==
    /\ Tick
    /\ UNCHANGED <<lakeVars, catalogVars, enc, histVars, io>>
    /\ IF \/ NoFiles(inspection)
          \/ NoFiles(history)
          \/ "model_layout_master" \notin db_tables
       THEN FullGridFails(D)
       ELSE \E ord \in ListOrdersGrid(inner_stats_grid(D)) :
                LET rows == FullGridRows(D, ord)
                IN \/ HasDuplicateKeys(rows) /\ FullGridFails(D)
                   \/ \E pick \in Picks(rows) : FullGridApplies(D, pick)

\* update_model_layout_link called on its own
LayoutLinkStep ==
    /\ Tick
    /\ \E sel \in LayoutOutcomes :
           model_layout_master' = update_model_layout_link(sel, now')
    /\ db_tables' = db_tables \cup {"model_layout_master"}
    /\ lastOp' = [kind |-> "link", day |-> 0, ok |-> ~LayoutUpsertFails(ref_tables),
                  rerun |-> FALSE]
    /\ UNCHANGED <<lakeVars, glass_stats, ref_tables, model_master, defect_master,
                   analytics_defect_master, enc, histVars, io>>

NextGrid ==
    \/ Ingest /\ UNCHANGED <<run, cfgVars>>
    \/ LayoutLinkStep /\ UNCHANGED <<run, cfgVars>>
    \/ (\E D \in Days : FullGridRun(D)) /\ UNCHANGED <<run, cfgVars>>

SpecGrid == InitRef /\ [][NextGrid]_vars

(***************************************************************************)
(* get_history_data.py: the panel address encoder of the analysis SQL      *)
(***************************************************************************)
Letters == <<"A", "B", "C", "D", "E", "F", "G", "H", "I", "J", "K", "L", "M",
             "N", "O", "P", "Q", "R", "S", "T", "U", "V", "W", "X", "Y", "Z">>
Digits == <<"0", "1", "2", "3", "4", "5", "6", "7", "8", "9">>

\* the multiplier of the row ordinal: the columns of the panel grid
GridCols == 10

IndexOf(seq, c) == CHOOSE i \in 1..Len(seq) : seq[i] = c

IsLetter(c) == \E i \in 1..Len(Letters) : Letters[i] = c
IsDigit(c) == \E i \in 1..Len(Digits) : Digits[i] = c

\* ascii(c) of an upper-case letter or a digit
Ascii(c) == IF IsLetter(c) THEN 64 + IndexOf(Letters, c) ELSE 47 + IndexOf(Digits, c)

\* the decimal text of a column number 1..99
ColumnText(n) ==
    IF n < 10 THEN <<Digits[n + 1]>> ELSE <<Digits[(n \div 10) + 1], Digits[(n % 10) + 1]>>

\* a grid address: row letter r (1 = A) followed by the column number
GridAddr(r, c) == <<Letters[r]>> \o ColumnText(c)

GridAddresses == {GridAddr(r, c) : r \in 1..Len(Letters), c \in 1..GridCols}

\* the cells of the grid panel_map is built over: range(1, 261)
GridCells == 260

\* a row letter followed by one digit, the digit 0 included
DigitAddresses == {<<Letters[r], Digits[i]>> : r \in 1..Len(Letters), i \in 1..Len(Digits)}

\* addresses outside the grid format
MalformedAddresses == {NULL, <<"A">>, <<"A", "X">>}

EncValue(n) == [kind |-> "value", value |-> n]
EncNull == [kind |-> "null", value |-> 0]
EncError == [kind |-> "error", value |-> 0]

\* CASE WHEN panel_addr IS NOT NULL AND LENGTH(panel_addr) >= 2 THEN
\*   (ascii(SUBSTR(panel_addr, 1, 1)) - 65) * 10
\*     + CAST(SUBSTR(panel_addr, 2, 1) AS INTEGER) + 1
\* ELSE NULL END; the CAST of a non-digit raises a conversion error
\* the encoder without its final + 1
EncodeIndex_ZeroBased(panel_addr) ==
    IF panel_addr /= NULL /\ Len(panel_addr) >= 2
    THEN LET row == Substr(panel_addr, 1, 1)[1]
             col == Substr(panel_addr, 2, 1)[1]
         IN IF IsDigit(col)
            THEN EncValue((Ascii(row) - 65) * GridCols + (IndexOf(Digits, col) - 1))
            ELSE EncError
    ELSE EncNull

EncodeIndex(panel_addr) ==
    IF panel_addr /= NULL /\ Len(panel_addr) >= 2
    THEN LET row == Substr(panel_addr, 1, 1)[1]
             col == Substr(panel_addr, 2, 1)[1]
         IN IF IsDigit(col)
            THEN EncValue((Ascii(row) - 65) * GridCols + (IndexOf(Digits, col) - 1) + 1)
            ELSE EncError
    ELSE EncNull

InitEnc ==
    /\ history = [d \in Days |-> {}]
    /\ inspection = [d \in Days |-> {}]
    /\ glass_stats = Empty
    /\ ref_tables = NoTables
    /\ model_master = Empty
    /\ defect_master = Empty
    /\ model_layout_master = Empty
    /\ analytics_defect_master = Empty
    /\ db_tables = {}
    /\ now = 0
    /\ lastOp = Idle
    /\ enc \in {[addr |-> a, result |-> EncNull, done |-> FALSE] :
                   a \in GridAddresses \cup DigitAddresses \cup MalformedAddresses}
    /\ InitHist

\* the encoder applied to the address
Encode ==
    /\ ~enc.done
    /\ enc' = [enc EXCEPT !.result = EncodeIndex(enc.addr), !.done = TRUE]
    /\ UNCHANGED <<lakeVars, glass_stats, catalogVars, now, lastOp, histVars, io>>

NextEnc == Encode /\ UNCHANGED <<run, cfgVars>>

SpecEnc == InitEnc /\ [][NextEnc]_vars

(***************************************************************************)
(* get_history_data.py: one day of the bucketed history ingestion, the     *)
(* write into the model/bucket layout followed by the analysis statement   *)
(* over the files just written                                             *)
(***************************************************************************)
MaxHistSteps == 3    \* steps of one behaviour of the history specification

\* a history item as the remote table returns it for a day
HBRow(p, m, d, n) ==
    [facility_code |-> Facility, product_id |-> p, product_id_col |-> TRUE,
     product_model_code |-> m, lot_id |-> <<"L", ToString(d), ToString(n)>>,
     move_in_ymdhms |-> <<d, n>>]

\* the batches of a day: one product; the same product with another lot and
\* no model yet, next to a second product; a row without identifier; a batch
\* whose columns do not include product_id; and the empty batch
BucketBatches(d) ==
    { {HBRow(P1, M1, d, 1)},
      {HBRow(P1, NULL, d, 2), HBRow(P2, M2, d, 3)},
      {HBRow(NULL, M1, d, 1), HBRow(P3, M1, d, 2)},
      {[HBRow(NULL, M2, d, 1) EXCEPT !.product_id_col = FALSE]},
      {} }

\* the inspection batches of a day, malformed panel addresses included
InspectionBatchesHist(d) ==
    { {IRow(P1, D1, A1, d, 1)},
      {IRow(P1, D1, A1, d, 1), IRow(P1, NULL, B1, d, 2)},
      {IRow(P1, D1, <<"A", "X">>, d, 1), IRow(P2, D1, A2, d, 2)},
      {IRow(P2, D2, <<"A">>, d, 1), IRow(P2, D2, NULL, d, 2), IRow(P2, D2, A2, d, 3)} }

\* int(hashlib.md5(val.encode("utf-8")).hexdigest(), 16), its last six
\* decimal digits (the digest of each identifier, tabulated)
Md5Tail(val) ==
    CASE val = P1 -> 108575
      [] val = P2 -> 307018
      [] val = P3 -> 37350

\* f"{n:02d}" for 0 <= n < 100
Format02d(n) == <<Digits[(n \div 10) + 1], Digits[(n % 10) + 1]>>

\* get_bucket with the hash taken modulo 10
get_bucket_ModTen(val) ==
    IF val = NULL THEN <<"0", "0">> ELSE Format02d(Md5Tail(val) % 10)

\* get_bucket: "00" for a value that is not a string, else MD5 mod 100
get_bucket(val) ==
    IF val = NULL THEN <<"0", "0">> ELSE Format02d(Md5Tail(val) % 100)

\* the frame after bucket_id and the partition columns were added
Prepared(df) ==
    {[facility_code |-> r.facility_code,
      product_id |-> r.product_id,
      product_id_col |-> r.product_id_col,
      product_model_code |->
          IF r.product_model_code = NULL THEN UNKNOWN ELSE r.product_model_code,
      lot_id |-> r.lot_id,
      move_in_ymdhms |-> r.move_in_ymdhms,
      bucket_id |-> IF r.product_id_col THEN get_bucket(r.product_id)
                    ELSE <<"0", "0">>] : r \in df}

\* the directory and file a row goes to: model / bucket / <date>_0.parquet
PartitionOf(r, d) == <<r.product_model_code, r.bucket_id, d>>

Parts(df, d) == {PartitionOf(r, d) : r \in Prepared(df)}

\* pq.write_to_dataset with existing_data_behavior = "overwrite_or_ignore":
\* the files of the partitions written are replaced, all other files stay
write_to_dataset(files, df, d, written) ==
    [k \in DOMAIN files \cup written |->
        IF k \in written THEN {r \in Prepared(df) : PartitionOf(r, d) = k}
        ELSE files[k]]

\* the partitions a write reached, and whether it raised: either every
\* partition was written, or the call raised after writing only some of them
WriteResults(df, d) ==
    {[written |-> Parts(df, d), raised |-> FALSE]} \cup
    {[written |-> w, raised |-> TRUE] : w \in (SUBSET Parts(df, d)) \ {Parts(df, d)}}

\* CTE history_source: every file under the history root, this facility
history_source(files) ==
    {r \in UNION {files[k] : k \in DOMAIN files} : r.facility_code = Facility}

\* the rows of glass_defects: WHERE panel_addr IS NOT NULL
AddressRows(I) == {r \in I : r.panel_addr /= NULL}

\* GROUP BY product_id
AddressGroup(I, p) == {r \in AddressRows(I) : r.product_id = p}

\* list_distinct(list(CASE ... END)): the distinct indices, NULLs dropped
defect_indices(I, p) ==
    {EncodeIndex(r.panel_addr).value :
        r \in {x \in AddressGroup(I, p) : EncodeIndex(x.panel_addr).kind = "value"}}

\* the CAST of the encoder raises on some row of the scan
EncoderRaises(I) ==
    \E r \in AddressRows(I) : EncodeIndex(r.panel_addr) = EncError

\* the history rows the WHERE clause of the SELECT keeps
DayHistory(files, D) ==
    {h \in history_source(files) :
        h.move_in_ymdhms /= NULL /\ DayOf(h.move_in_ymdhms) = D}

\* the products of the day that have a group in glass_defects
JoinedProducts(files, I, D) ==
    {h.product_id : h \in DayHistory(files, D)} \cap
    {r.product_id : r \in AddressRows(I)}

\* list(panel_addr): the rows of each group in an order the engine chooses
AddressOrders(files, I, D) ==
    LET ps == JoinedProducts(files, I, D)
    IN {ord \in [ps -> UNION {Perms(AddressGroup(I, p)) : p \in ps}] :
           \A p \in ps : ord[p] \in Perms(AddressGroup(I, p))}

\* one row of the SELECT: history row h LEFT JOIN glass_defects
HistSelectRow(h, I, ord) ==
    LET p == h.product_id
        indices == defect_indices(I, p)
    IN [product_id |-> p,
        lot_id |-> h.lot_id,
        product_model_code |-> h.product_model_code,
        work_date |-> DateOf(h.move_in_ymdhms),
        total_defects |-> Cardinality(indices),
        panel_map |-> [idx \in 1..GridCells |-> IF idx \in indices THEN 1 ELSE 0],
        panel_addrs |-> IF p \in DOMAIN ord
                        THEN [i \in 1..Len(ord[p]) |-> ord[p][i].panel_addr]
                        ELSE <<>>]

HistRows(files, I, D, ord) ==
    {HistSelectRow(h, I, ord) : h \in DayHistory(files, D)}

\* the statement raises whatever the addresses are: no file under a glob,
\* a file without the product_id column, or a NULL primary key
StatementRaises(files, I, D) ==
    \/ NoFiles(inspection)
    \/ DOMAIN files = {}
    \/ \E r \in history_source(files) : ~r.product_id_col
    \/ \E h \in DayHistory(files, D) : h.product_id = NULL

HistHasDuplicateKeys(rows) ==
    \E r1, r2 \in rows : r1 /= r2 /\ r1.product_id = r2.product_id

HistPicks(rows) ==
    LET ks == {r.product_id : r \in rows}
    IN {pick \in [ks -> rows] : \A k \in ks : pick[k].product_id = k}

\* the conflict rule of run_daily_analysis in its place: the total added,
\* the lists appended
HistConflictUpdate_Accumulate(old, new, t) ==
    [old EXCEPT !.total_defects = old.total_defects + new.total_defects,
                !.panel_map = old.panel_map \o new.panel_map,
                !.panel_addrs = old.panel_addrs \o new.panel_addrs,
                !.created_at = t]

\* ON CONFLICT (product_id) DO UPDATE SET total_defects, panel_map,
\* panel_addrs = EXCLUDED..., created_at = CURRENT_TIMESTAMP
HistConflictUpdate(old, new, t) ==
    [old EXCEPT !.total_defects = new.total_defects,
                !.panel_map = new.panel_map,
                !.panel_addrs = new.panel_addrs,
                !.created_at = t]

HistInsertRow(new, t) ==
    [product_id |-> new.product_id,
     lot_id |-> new.lot_id,
     product_model_code |-> new.product_model_code,
     work_date |-> new.work_date,
     total_defects |-> new.total_defects,
     panel_map |-> new.panel_map,
     panel_addrs |-> new.panel_addrs,
     created_at |-> t]

HistUpsert(table, pick, t) ==
    [k \in DOMAIN table \cup DOMAIN pick |->
        IF k \notin DOMAIN pick THEN table[k]
        ELSE IF k \in DOMAIN table THEN HistConflictUpdate(table[k], pick[k], t)
        ELSE HistInsertRow(pick[k], t)]

HistStep(D, ok) ==
    [kind |-> "history", day |-> D, ok |-> ok, rerun |-> Repeats("history", D)]

\* con.execute(analysis_sql) raised, or was never reached: nothing written
HistAnalysisFails(D) ==
    /\ analytics_glass_stats' = analytics_glass_stats
    /\ lastOp' = HistStep(D, FALSE)

HistAnalysisApplies(D, pick) ==
    /\ analytics_glass_stats' = HistUpsert(analytics_glass_stats, pick, now')
    /\ lastOp' = HistStep(D, TRUE)

\* the analysis statement over the files as the write left them
analysis_sql(files, D) ==
    LET I == ReadAll(inspection)
    IN IF StatementRaises(files, I, D) \/ EncoderRaises(I)
       THEN HistAnalysisFails(D)
       ELSE \E ord \in AddressOrders(files, I, D) :
                LET rows == HistRows(files, I, D, ord)
                IN \/ HistHasDuplicateKeys(rows) /\ HistAnalysisFails(D)
                   \/ \E pick \in HistPicks(rows) : HistAnalysisApplies(D, pick)

\* one iteration of the date loop of get_history_data.main
GetHistoryDay(D) ==
    /\ Tick
    /\ \E df \in BucketBatches(D) : \E w \in WriteResults(df, D) :
        /\ buckets' = write_to_dataset(buckets, df, D, w.written)
        /\ io' = [writer |-> "write_to_dataset", table_type |-> "history",
                  df |-> df, day |-> D,
                  raised |-> w.raised,
                  returned |-> IF w.raised THEN "exception" ELSE "None"]
        /\ IF w.raised THEN HistAnalysisFails(D)
           ELSE analysis_sql(buckets', D)
    /\ UNCHANGED <<lakeVars, glass_stats, catalogVars, enc>>

\* get_insp_data.main writing the inspection file of a day
IngestInspectionDay ==
    /\ Tick
    /\ \E d \in Days : \E df \in InspectionBatchesHist(d) \cup {{}} :
           IngestInspection(d, df)

HistStepsLeft == now < MaxHistSteps

NextHist ==
    \/ HistStepsLeft /\ IngestInspectionDay /\ UNCHANGED <<run, cfgVars>>
    \/ HistStepsLeft /\ (\E D \in Days : GetHistoryDay(D)) /\ UNCHANGED <<run, cfgVars>>

SpecHist == Init /\ [][NextHist]_vars

(***************************************************************************)
(* The batch entry points over a date range: main() of get_insp_data,      *)
(* get_history_data, run_daily_analysis and update_defect_master loop      *)
(* while curr <= end_date; daily_metadata_job.main handles its start date  *)
(***************************************************************************)
MaxLoopSteps == 2    \* days processed in one behaviour of the loop specification

LoopStepsLeft == now < MaxLoopSteps

LoopJobs == {"get_insp_data", "get_history_data", "run_daily_analysis",
             "update_defect_master"}

\* every variable but run
progVars == <<lakeVars, glass_stats, catalogVars, now, lastOp, enc, histVars, io>>

\* the lake a run finds: ingested for both days, or still without files
InitLoop ==
    /\ history \in {[d \in Days |-> {}], [d \in Days |-> {HRow(P1, d, 1)}]}
    /\ inspection \in {[d \in Days |-> {}], [d \in Days |-> {IRow(P1, D1, A1, d, 1)}]}
    /\ glass_stats = Empty
    /\ ref_tables \in {NoTables, [exists |-> TRUE, part_no |-> {PartNo(M1, PN1)},
                                   pnl_map |-> {PnlMap(PN1, L3)}]}
    /\ model_master = Empty
    /\ defect_master = Empty
    /\ model_layout_master = Empty
    /\ analytics_defect_master = Empty
    /\ db_tables = {}
    /\ now = 0
    /\ lastOp = Idle
    /\ enc = [addr |-> NULL, result |-> NULL, done |-> FALSE]
    /\ InitHist

\* argparse: --start and --end, each any day, in any order
StartRun ==
    /\ run.done
    /\ LoopStepsLeft
    /\ \E job \in LoopJobs \cup {"daily_metadata_job"} : \E s \in Days, e \in Days :
           run' = [job |-> job, start |-> s, end |-> e, curr |-> s, days |-> <<>>,
                   failed |-> {}, done |-> FALSE]
    /\ UNCHANGED progVars

\* the loop body ended by an exception that skipped the rest of the range
AfterDay_StopOnFailure(r, raised) ==
    [r EXCEPT !.days = Append(@, r.curr),
              !.failed = IF raised THEN @ \cup {r.curr} ELSE @,
              !.curr = IF raised THEN r.end + 1 ELSE r.curr + 1]

\* the end of one iteration: the exception of the day, if any, was caught
\* inside the loop body, and curr += timedelta(days=1) is reached
AfterDay(r, raised) ==
    [r EXCEPT !.days = Append(@, r.curr),
              !.failed = IF raised THEN @ \cup {r.curr} ELSE @,
              !.curr = r.curr + 1]

\* the body of the loop of each entry point for the day curr
LoopDay ==
    /\ ~run.done
    /\ LoopStepsLeft
    /\ run.job \in LoopJobs
    /\ run.curr <= run.end
    /\ \/ /\ run.job = "get_insp_data"
          /\ Tick
          /\ \E df \in InspectionBatchesHist(run.curr) \cup {{}} :
                 IngestInspection(run.curr, df)
          /\ run' = AfterDay(run, io'.raised)
       \/ /\ run.job = "get_history_data"
          /\ GetHistoryDay(run.curr)
          /\ run' = AfterDay(run, ~lastOp'.ok)
       \/ /\ run.job = "run_daily_analysis"
          /\ RunDailyAnalysis(run.curr)
          /\ run' = AfterDay(run, ~lastOp'.ok)
       \/ /\ run.job = "update_defect_master"
          /\ UpdateDefectMasterDay(run.curr)
          /\ run' = AfterDay(run, ~lastOp'.ok)

\* while curr <= end_date is false: the entry point returns
LoopExit ==
    /\ ~run.done
    /\ run.job \in LoopJobs
    /\ run.curr > run.end
    /\ run' = [run EXCEPT !.done = TRUE]
    /\ UNCHANGED progVars

\* daily_metadata_job.main: the updates run for start_date, args.end is
\* parsed and not used
MetadataRun ==
    /\ ~run.done
    /\ LoopStepsLeft
    /\ run.job = "daily_metadata_job"
    /\ MetadataJob(run.start)
    /\ run' = [run EXCEPT !.days = <<run.start>>,
                          !.failed = IF lastOp'.ok THEN {} ELSE {run.start},
                          !.done = TRUE]

NextLoop ==
    \/ StartRun /\ UNCHANGED cfgVars
    \/ LoopDay /\ UNCHANGED cfgVars
    \/ LoopExit /\ UNCHANGED cfgVars
    \/ MetadataRun /\ UNCHANGED cfgVars

SpecLoop == InitLoop /\ [][NextLoop]_vars

(***************************************************************************)
(* The configuration gate of the entry points: load_app_config() returns   *)
(* the parsed config.yaml or None; get_history_data.main and               *)
(* get_insp_data.main return when it is None or their table is not mapped, *)
(* main.run_download_job returns when it is None and skips each table that *)
(* is not mapped, run_daily_analysis.main falls back to its default        *)
(* aggregation key and goes on.  Each action is one invocation for one day *)
(***************************************************************************)
MaxCfgSteps == 2     \* invocations in one behaviour of the configuration specification

CfgStepsLeft == now < MaxCfgSteps

\* load_app_config(): None, or a parsed file with any of its mappings present
Configs ==
    {[loaded |-> FALSE, history_table |-> FALSE, inspection_table |-> FALSE,
      analysis |-> FALSE]}
    \cup [loaded : {TRUE}, history_table : BOOLEAN, inspection_table : BOOLEAN,
          analysis : BOOLEAN]

\* the lake an invocation finds: ingested by an earlier run, or without files
InitCfg ==
    /\ history \in {[d \in Days |-> {}], [d \in Days |-> {HRow(P1, d, 1)}]}
    /\ inspection \in {[d \in Days |-> {}], [d \in Days |-> {IRow(P1, D1, A1, d, 1)}]}
    /\ glass_stats = Empty
    /\ ref_tables = NoTables
    /\ model_master = Empty
    /\ defect_master = Empty
    /\ model_layout_master = Empty
    /\ analytics_defect_master = Empty
    /\ db_tables = {}
    /\ now = 0
    /\ lastOp = Idle
    /\ enc = [addr |-> NULL, result |-> NULL, done |-> FALSE]
    /\ buckets = Empty
    /\ analytics_glass_stats = Empty
    /\ io = NoWrite
    /\ run = NoRun
    /\ config \in Configs
    /\ effects = NoEffects
    /\ scan = NoScan

\* what the remote store holds for a day: one history row, one inspection row
RemoteHistory(d) == {{HRow(P1, d, 1)}}
RemoteInspection(d) == {{IRow(P1, D1, A1, d, 1)}}

\* the invocation returned before the client was used or a file was opened
Aborted(job) ==
    /\ Tick
    /\ effects' = [job |-> job, io |-> {}]
    /\ lastOp' = [kind |-> "abort", day |-> 0, ok |-> TRUE, rerun |-> FALSE]
    /\ UNCHANGED <<lakeVars, glass_stats, catalogVars, enc, histVars, io>>

\* get_history_data.main: if not config: return; if not table_name: return
GetHistoryMain(D) ==
    IF ~config.loaded \/ ~config.history_table
    THEN Aborted("get_history_data")
    ELSE /\ GetHistoryDay(D)
         /\ effects' = [job |-> "get_history_data",
                        io |-> {"remote_query"}
                               \cup (IF io'.df /= {} THEN {"lake_write"} ELSE {})
                               \cup (IF io'.raised THEN {} ELSE {"stats_write"})]

\* get_insp_data.main: if not config: return; if not table_name: return
GetInspMain(D) ==
    IF ~config.loaded \/ ~config.inspection_table
    THEN Aborted("get_insp_data")
    ELSE /\ Tick
         /\ \E df \in RemoteInspection(D) \cup {{}} : IngestInspection(D, df)
         /\ effects' = [job |-> "get_insp_data",
                        io |-> {"remote_query"}
                               \cup (IF io'.df /= {} THEN {"lake_write"} ELSE {})]

\* the batch run_download_job fetches for a table: nothing when the table
\* is not mapped
Fetched(mapped, batches) == IF mapped THEN batches \cup {{}} ELSE {{}}

\* main.run_download_job for its target date: history, then inspection
RunDownloadJob(D) ==
    IF ~config.loaded
    THEN Aborted("run_download_job")
    ELSE /\ Tick
         /\ \E dfh \in Fetched(config.history_table, RemoteHistory(D)),
               dfi \in Fetched(config.inspection_table, RemoteInspection(D)) :
            \E rh \in WriteOutcomes(dfh), ri \in WriteOutcomes(dfi) :
                /\ history' = save_to_parquet(history, dfh, D, rh)
                /\ inspection' = save_to_parquet(inspection, dfi, D, ri)
                /\ io' = IF config.inspection_table
                         THEN SaveCall("inspection", dfi, D, ri)
                         ELSE IF config.history_table
                              THEN SaveCall("history", dfh, D, rh)
                              ELSE io
                /\ effects' =
                       [job |-> "run_download_job",
                        io |-> (IF config.history_table \/ config.inspection_table
                                THEN {"remote_query"} ELSE {})
                               \cup (IF dfh /= {} \/ dfi /= {}
                                     THEN {"lake_write"} ELSE {})]
         /\ lastOp' = [kind |-> "ingest", day |-> 0, ok |-> TRUE, rerun |-> FALSE]
         /\ UNCHANGED <<glass_stats, catalogVars, enc, histVars>>

\* run_daily_analysis.main: config is read for the aggregation key only;
\* without it the key defaults to panel_addr, the database is opened, the
\* table is created and the day is aggregated
RunDailyAnalysisMain(D) ==
    /\ RunDailyAnalysis(D)
    /\ effects' = [job |-> "run_daily_analysis", io |-> {"stats_write"}]

NextCfg ==
    \/ CfgStepsLeft /\ (\E D \in Days : GetHistoryMain(D)) /\ UNCHANGED <<run, config, scan>>
    \/ CfgStepsLeft /\ (\E D \in Days : GetInspMain(D)) /\ UNCHANGED <<run, config, scan>>
    \/ CfgStepsLeft /\ (\E D \in Days : RunDownloadJob(D)) /\ UNCHANGED <<run, config, scan>>
    \/ CfgStepsLeft /\ (\E D \in Days : RunDailyAnalysisMain(D)) /\ UNCHANGED <<run, config, scan>>

SpecCfg == InitCfg /\ [][NextCfg]_vars

(***************************************************************************)
(* Recovery by re-run of run_daily_analysis: a first run over start..end   *)
(* may be killed before any day or between two days (each INSERT is        *)
(* committed on its own, nothing is rolled back); the same range is then   *)
(* run again from its start date to completion                             *)
(***************************************************************************)
\* the lake the runs find: a history file per day, and per day no, one or
\* two inspection rows of product P1
RerunInspection(d) ==
    {{}, {IRow(P1, D1, A1, d, 1)}, {IRow(P1, D1, A1, d, 1), IRow(P1, D1, A2, d, 2)}}

InitRerun ==
    /\ history \in {[d \in Days |-> {HRow(P1, d, 1)}], [d \in Days |-> {HRow(P2, d, 1)}]}
    /\ inspection \in {f \in [Days -> UNION {RerunInspection(d) : d \in Days}] :
                          \A d \in Days : f[d] \in RerunInspection(d)}
    /\ glass_stats = Empty
    /\ ref_tables = NoTables
    /\ model_master = Empty
    /\ defect_master = Empty
    /\ model_layout_master = Empty
    /\ analytics_defect_master = Empty
    /\ db_tables = {}
    /\ now = 0
    /\ lastOp = Idle
    /\ enc = [addr |-> NULL, result |-> NULL, done |-> FALSE]
    /\ InitHist

\* the first invocation: --start and --end, each any day
StartFirstRun ==
    /\ run = NoRun
    /\ \E s \in Days, e \in Days :
           run' = [job |-> "run_daily_analysis", start |-> s, end |-> e, curr |-> s,
                   days |-> <<>>, failed |-> {}, done |-> FALSE,
                   attempt |-> 1, interrupted |-> FALSE]
    /\ UNCHANGED progVars

\* one iteration of the loop: the day curr is aggregated, then curr += 1 day
RerunDay ==
    /\ run.job = "run_daily_analysis"
    /\ ~run.done
    /\ run.curr <= run.end
    /\ RunDailyAnalysis(run.curr)
    /\ run' = AfterDay(run, ~lastOp'.ok)

\* the process is killed between two statements of the first run
Interrupt ==
    /\ run.job = "run_daily_analysis"
    /\ ~run.done
    /\ run.attempt = 1
    /\ run' = [run EXCEPT !.done = TRUE, !.interrupted = TRUE]
    /\ UNCHANGED progVars

\* while curr <= end_date is false: main returns
RerunExit ==
    /\ run.job = "run_daily_analysis"
    /\ ~run.done
    /\ run.curr > run.end
    /\ run' = [run EXCEPT !.done = TRUE]
    /\ UNCHANGED progVars

\* the same range is run again after the interrupted run
StartSecondRun ==
    /\ run.job = "run_daily_analysis"
    /\ run.done
    /\ run.interrupted
    /\ run.attempt = 1
    /\ run' = [run EXCEPT !.curr = run.start, !.days = <<>>, !.failed = {},
                          !.done = FALSE, !.attempt = 2, !.interrupted = FALSE]
    /\ UNCHANGED progVars

NextRerun ==
    \/ StartFirstRun /\ UNCHANGED cfgVars
    \/ RerunDay /\ UNCHANGED cfgVars
    \/ Interrupt /\ UNCHANGED cfgVars
    \/ RerunExit /\ UNCHANGED cfgVars
    \/ StartSecondRun /\ UNCHANGED cfgVars

SpecRerun == InitRerun /\ [][NextRerun]_vars

(***************************************************************************)
(* dynamodb.py: DynamoDB.query reads a table page by page with table.scan, *)
(* passing the LastEvaluatedKey of a response as the ExclusiveStartKey of  *)
(* the next request, until a response carries no LastEvaluatedKey; an      *)
(* exception of any request is caught and {"Items": []} is returned        *)
(***************************************************************************)
MaxPages == 3        \* pages of the remote table

\* the item lists a page can carry
PageItems == {<<>>, <<"a">>, <<"a", "b">>}

\* the remote table, as the sequences of pages it can answer with
RemotePages == UNION {[1..n -> PageItems] : n \in 1..MaxPages}

\* table.scan(**scan_kwargs): the page after ExclusiveStartKey, with the
\* key of that page unless it is the last one
ScanResponse(pages, ExclusiveStartKey) ==
    LET n == ExclusiveStartKey + 1
    IN [received |-> TRUE, Items |-> pages[n],
        LastEvaluatedKey |-> IF n < Len(pages) THEN n ELSE 0]

\* the except branch returning the collected items instead of an empty list
FailedResult_Partial(data) == data

\* except Exception: return {"Items": []}
FailedResult(data) == <<>>

InitScan ==
    /\ history = [d \in Days |-> {}]
    /\ inspection = [d \in Days |-> {}]
    /\ glass_stats = Empty
    /\ ref_tables = NoTables
    /\ model_master = Empty
    /\ defect_master = Empty
    /\ model_layout_master = Empty
    /\ analytics_defect_master = Empty
    /\ db_tables = {}
    /\ now = 0
    /\ lastOp = Idle
    /\ enc = [addr |-> NULL, result |-> NULL, done |-> FALSE]
    /\ buckets = Empty
    /\ analytics_glass_stats = Empty
    /\ io = NoWrite
    /\ run = NoRun
    /\ config = FullConfig
    /\ effects = NoEffects
    /\ \E pages \in RemotePages, failAt \in 0..MaxPages :
           scan = [NoScan EXCEPT !.pages = pages, !.failAt = failAt]

\* a request: it raises, and query returns from its except branch, or its
\* response is kept and its items are added to data
Request(ExclusiveStartKey) ==
    LET sent == Append(scan.requests, ExclusiveStartKey)
    IN IF Len(sent) = scan.failAt
       THEN scan' = [scan EXCEPT !.requests = sent, !.returned = TRUE,
                                 !.raised = TRUE,
                                 !.Items = FailedResult(scan.data)]
       ELSE LET response == ScanResponse(scan.pages, ExclusiveStartKey)
            IN scan' = [scan EXCEPT !.requests = sent, !.response = response,
                                    !.data = scan.data \o response.Items]

\* response = table.scan(**scan_kwargs); data = response.get("Items", [])
FirstScan ==
    /\ ~scan.returned
    /\ scan.requests = <<>>
    /\ Request(0)

\* while "LastEvaluatedKey" in response: scan again from that key
NextScan ==
    /\ ~scan.returned
    /\ scan.response.received
    /\ scan.response.LastEvaluatedKey /= 0
    /\ Request(scan.response.LastEvaluatedKey)

\* return {"Items": data}
ReturnItems ==
    /\ ~scan.returned
    /\ scan.response.received
    /\ scan.response.LastEvaluatedKey = 0
    /\ scan' = [scan EXCEPT !.returned = TRUE, !.Items = scan.data]

scanFrame == <<history, inspection, glass_stats, ref_tables, model_master,
               defect_master, model_layout_master, analytics_defect_master,
               db_tables, now, lastOp, enc, buckets, analytics_glass_stats, io,
               run, config, effects>>

NextQuery ==
    \/ FirstScan /\ UNCHANGED scanFrame
    \/ NextScan /\ UNCHANGED scanFrame
    \/ ReturnItems /\ UNCHANGED scanFrame

SpecScan == InitScan /\ [][NextQuery]_vars

\* the loop is a sequential program: a step that can be taken is taken
SpecScanLive == SpecScan /\ WF_vars(NextQuery)

(***************************************************************************)
(* Claims about run_daily_analysis (specification Spec)                    *)
(***************************************************************************)
\* the last step was a completed aggregation statement
AnalysisDone == lastOp.kind = "analysis" /\ lastOp.ok

\* the day's inspection rows of a key that carry a defect name and an address
DayRows(k, D) ==
    {r \in ReadAll(inspection) :
        /\ r.product_id = k[1]
        /\ r.defect_name = k[2]
        /\ r.defect_name /= NULL
        /\ r.panel_addr /= NULL
        /\ DayOf(r.inspection_end_ymdhms) = D}

\* the day's inspection rows of a product, whatever their defect and address
ProductInspected(p, D) ==
    \E r \in ReadAll(inspection) :
        r.product_id = p /\ DayOf(r.inspection_end_ymdhms) = D

\* C1: after an aggregation run for a date, every product with a history row
\* of that date has a row in glass_stats, and a product without inspection
\* rows has a row with total_defects = 0 and empty panel data.
C1_Completeness ==
    AnalysisDone =>
        \A h \in target_history :
            DayOf(h.move_in_ymdhms) = lastOp.day =>
                /\ \E k \in DOMAIN glass_stats : k[1] = h.product_id
                /\ ~ProductInspected(h.product_id, lastOp.day) =>
                       \E k \in DOMAIN glass_stats :
                           /\ k[1] = h.product_id
                           /\ glass_stats[k].total_defects = 0
                           /\ glass_stats[k].panel_map = <<>>
                           /\ glass_stats[k].panel_addrs = <<>>

\* the stored total of a key, 0 when the key has no row
StoredTotal(table, k) ==
    IF k \in DOMAIN table THEN table[k].total_defects ELSE 0

\* C2: every completed run of a day adds that day's count of the key to the
\* stored total_defects (so a second run of the same day doubles a total of 1).
C2_Accumulates ==
    [][(lastOp'.kind = "analysis" /\ lastOp'.ok) =>
          \A k \in DOMAIN glass_stats' :
              glass_stats'[k].total_defects =
                  StoredTotal(glass_stats, k) + Cardinality(DayRows(k, lastOp'.day))]_vars

\* C2 witness: one history row, one matching inspection row, the same day run
\* twice, and the stored total is 2.
C2_Witness ==
    /\ AnalysisDone
    /\ ReadAll(history) = {HRow(P1, 1, 1)}
    /\ ReadAll(inspection) = {IRow(P1, D1, A1, 1, 1)}
    /\ lastOp.day = 1
    /\ lastOp.rerun
    /\ <<P1, D1>> \in DOMAIN glass_stats
    /\ glass_stats[<<P1, D1>>].total_defects = 2

\* C6: after a completed run, every row of a key the run produced carries the
\* run's own descriptive values, the work timestamp included.
C6_DescriptiveOverwritten ==
    AnalysisDone =>
        \A k \in DOMAIN glass_stats :
            DayRows(k, lastOp.day) /= {} =>
                \E h \in HistoryMatches([product_id |-> k[1]]) :
                    /\ glass_stats[k].model_code = Substr(k[1], 3, 2)
                    /\ glass_stats[k].lot_id = h.lot_id
                    /\ glass_stats[k].work_time = h.move_in_ymdhms
                    /\ glass_stats[k].inspection_time =
                           MaxTs({r.inspection_end_ymdhms : r \in DayRows(k, lastOp.day)})
                    /\ glass_stats[k].process_code = h.process_code
                    /\ glass_stats[k].equipment_line_id = h.equipment_line_id
                    /\ glass_stats[k].equipment_machine_id = h.equipment_machine_id
                    /\ glass_stats[k].equipment_path_id = h.equipment_path_id

(***************************************************************************)
(* Claims about the master catalogs (specification SpecCat)                *)
(***************************************************************************)
\* the last step repeated the catalog job of the step before it, with no
\* other step (so no change of the sources) in between
JobRepeated == lastOp.kind = "metadata" /\ lastOp.rerun

\* C7 as stated: a second catalog job for the same date over unchanged
\* sources leaves the keys and the ref_panels of all three catalogs as the
\* first run left them.
C7_Idempotent ==
    [][(lastOp'.kind = "metadata" /\ lastOp'.rerun) =>
          /\ DOMAIN model_master' = DOMAIN model_master
          /\ DOMAIN defect_master' = DOMAIN defect_master
          /\ DOMAIN model_layout_master' = DOMAIN model_layout_master
          /\ \A m \in DOMAIN model_layout_master :
                 model_layout_master'[m].ref_panels = model_layout_master[m].ref_panels]_vars

\* the part numbers of a model that carry a layout all carry the same one
SharedLayout(r, m) ==
    \A pn1, pn2 \in r.part_no : \A pm1, pm2 \in r.pnl_map :
        (/\ pn1.model_code = m /\ pn2.model_code = m
         /\ pm1.part_no_name = pn1.part_no_name /\ pm2.part_no_name = pn2.part_no_name
         /\ pm1.ref_panels /= NULL /\ pm2.ref_panels /= NULL)
            => pm1.ref_panels = pm2.ref_panels

\* C7 amended: the second job leaves the keys of all three catalogs unchanged,
\* and the ref_panels of every model whose part numbers share one layout.
C7_IdempotentSharedLayout ==
    [][(lastOp'.kind = "metadata" /\ lastOp'.rerun) =>
          /\ DOMAIN model_master' = DOMAIN model_master
          /\ DOMAIN defect_master' = DOMAIN defect_master
          /\ DOMAIN model_layout_master' = DOMAIN model_layout_master
          /\ \A m \in DOMAIN model_layout_master :
                 SharedLayout(ref_tables, m) =>
                     model_layout_master'[m].ref_panels = model_layout_master[m].ref_panels]_vars

\* C7 witness: a repeated job with all three catalogs filled, only the
\* timestamps of the refreshed keys moved.
C7_Witness ==
    /\ JobRepeated
    /\ lastOp.ok
    /\ model_master /= Empty
    /\ defect_master /= Empty
    /\ model_layout_master /= Empty
    /\ \A k \in DOMAIN model_layout_master : model_layout_master[k].updated_at = now

\* once in a catalog a key stays, and its updated_at does not decrease
Retained(old, new) ==
    \A k \in DOMAIN old :
        /\ k /= NULL
        /\ k \in DOMAIN new
        /\ new[k].updated_at >= old[k].updated_at

\* C8: over any step, failed runs included, the keys of every catalog are
\* kept, are not NULL, and their updated_at never moves backwards.
C8_AppendOnly ==
    [][/\ Retained(model_master, model_master')
       /\ Retained(defect_master, defect_master')
       /\ Retained(model_layout_master, model_layout_master')
       /\ Retained(analytics_defect_master, analytics_defect_master')]_vars

\* C8 witness: after a job that refreshed nothing of an older day's keys (or
\* failed), keys of an earlier run are still there with their older timestamp.
C8_Witness ==
    /\ lastOp.kind = "metadata"
    /\ \E k \in DOMAIN model_master : model_master[k].updated_at < now
    /\ \E k \in DOMAIN defect_master : defect_master[k].updated_at = now

\* C9: after one day's catalog job each of the three operations whose own
\* source is readable has been applied, whatever happened to the other two.
C9_IndependentOperations ==
    lastOp.kind = "metadata" =>
        /\ ~ModelUpsertFails(lastOp.day) =>
               \A k \in ModelSelect(lastOp.day) :
                   k \in DOMAIN model_master /\ model_master[k].updated_at = now
        /\ ~DefectUpsertFails(lastOp.day) =>
               \A k \in DefectSelect(lastOp.day) :
                   k \in DOMAIN defect_master /\ defect_master[k].updated_at = now
        /\ ~LayoutUpsertFails(ref_tables) =>
               \A m \in LayoutModels(ref_tables) :
                   m \in DOMAIN model_layout_master
                       /\ model_layout_master[m].updated_at = now

(***************************************************************************)
(* Claims about the full-grid query (specification SpecGrid)               *)
(***************************************************************************)
KnownLayout(row) == row.model_code \in DOMAIN model_layout_master

RefPanelsOf(row) == model_layout_master[row.model_code].ref_panels

\* C3: in every state, a row whose model has a layout of N reference panels
\* has a panel_map of exactly N entries.
C3_PanelMapLength ==
    \A k \in DOMAIN glass_stats :
        KnownLayout(glass_stats[k]) =>
            Len(glass_stats[k].panel_map) = Len(RefPanelsOf(glass_stats[k]))

\* C4: a completed full-grid run on an empty table leaves, in every row whose
\* model has a layout, at each position k the number of the day's inspection
\* rows of that product and defect at panel ref_panels[k] (0 if none).
C4_PanelMapCounts ==
    [][(glass_stats = Empty /\ lastOp'.kind = "grid" /\ lastOp'.ok) =>
          \A k \in DOMAIN glass_stats' :
              KnownLayout(glass_stats'[k]) =>
                  /\ Len(glass_stats'[k].panel_map) = Len(RefPanelsOf(glass_stats'[k]))
                  /\ \A i \in 1..Len(RefPanelsOf(glass_stats'[k])) :
                         glass_stats'[k].panel_map[i] =
                             Cardinality({r \in DayRows(k, lastOp'.day) :
                                 r.panel_addr = RefPanelsOf(glass_stats'[k])[i]})]_vars

\* C4 witness: a first full-grid run stored the counts 2, 1, 0 over the layout
\* A1, A2, B1 for a product seen twice at A1 and once at A2.
C4_Witness ==
    /\ lastOp.kind = "grid" /\ lastOp.ok
    /\ <<P1, D1>> \in DOMAIN glass_stats
    /\ glass_stats[<<P1, D1>>].created_at = now
    /\ glass_stats[<<P1, D1>>].model_code = M1
    /\ M1 \in DOMAIN model_layout_master
    /\ model_layout_master[M1].ref_panels = L3
    /\ glass_stats[<<P1, D1>>].panel_map = <<2, 1, 0>>
    /\ glass_stats[<<P1, D1>>].total_defects = 3

\* the product of a key is in raw-address mode: it has no history row, or no
\* history row of it has a model with a layout
RawMode(p) ==
    \A h \in target_history :
        h.product_id = p => h.model_code \notin DOMAIN model_layout_master

StoredLength(table, k) ==
    IF k \in DOMAIN table THEN Len(table[k].panel_map) ELSE 0

\* the positions a run appended to the lists of a key
Appended(k) ==
    (StoredLength(glass_stats, k) + 1)..StoredLength(glass_stats', k)

\* C5: panel_map and panel_addrs always have the same length, and what a run
\* stores for a raw-mode product is each observed address of the day once,
\* with its occurrence count at the same position of panel_map.
C5_RawModeParallel ==
    [][\A k \in DOMAIN glass_stats' :
          /\ Len(glass_stats'[k].panel_map) = Len(glass_stats'[k].panel_addrs)
          /\ (lastOp'.kind \in {"grid", "analysis"} /\ lastOp'.ok /\ RawMode(k[1])) =>
                 /\ {glass_stats'[k].panel_addrs[i] : i \in Appended(k)} =
                        {r.panel_addr : r \in DayRows(k, lastOp'.day)}
                 /\ Cardinality(Appended(k)) =
                        Cardinality({r.panel_addr : r \in DayRows(k, lastOp'.day)})
                 /\ \A i \in Appended(k) :
                        glass_stats'[k].panel_map[i] =
                            Cardinality({r \in DayRows(k, lastOp'.day) :
                                r.panel_addr = glass_stats'[k].panel_addrs[i]})]_vars

\* C5 witness: a rerun concatenated the raw lists of a product whose model has
\* no layout; both lists have the same length 2.
C5_Witness ==
    /\ lastOp.kind = "grid" /\ lastOp.ok /\ lastOp.rerun
    /\ <<P2, D2>> \in DOMAIN glass_stats
    /\ M2 \notin DOMAIN model_layout_master
    /\ glass_stats[<<P2, D2>>].panel_addrs = <<B1, B1>>
    /\ glass_stats[<<P2, D2>>].panel_map = <<1, 1>>

(***************************************************************************)
(* Claims about the panel address encoder (specification SpecEnc)          *)
(***************************************************************************)
\* C10: every grid address (row letter, column 1..10) is encoded as
\* row ordinal * 10 + column + c for the one offset c that also encodes A1,
\* and no other grid address gets the same index.
C10_GridIndex ==
    \A r \in 1..Len(Letters), col \in 1..GridCols :
        (enc.done /\ enc.addr = GridAddr(r, col)) =>
            /\ \E c \in {0, 1} :
                   /\ EncodeIndex(A1) = EncValue(0 * GridCols + 1 + c)
                   /\ enc.result = EncValue((r - 1) * GridCols + col + c)
            /\ \A b \in GridAddresses : b /= enc.addr => EncodeIndex(b) /= enc.result

\* C11: for every column digit and every pair of adjacent row letters the
\* encoded indices differ by exactly 10, and every index produced for an
\* address with a row letter A..Z lies in 1..260.
C11_RowStride ==
    /\ \A r \in 1..Len(Letters), i \in 1..Len(Digits) :
           (enc.done /\ enc.addr = <<Letters[r], Digits[i]>>) =>
               /\ enc.result.kind = "value"
               /\ r < Len(Letters) =>
                      EncodeIndex(<<Letters[r + 1], Digits[i]>>) =
                          EncValue(enc.result.value + 10)
    /\ (enc.done /\ enc.result.kind = "value" /\ IsLetter(enc.addr[1])) =>
           enc.result.value \in 1..GridCells

\* C11 witness: the last cell, Z9, is encoded as 260, and Y9 ten below it.
C11_Witness ==
    /\ enc.done
    /\ enc.addr = <<"Z", "9">>
    /\ enc.result = EncValue(260)
    /\ EncodeIndex(<<"Y", "9">>) = EncValue(250)

(***************************************************************************)
(* Claims about get_history_data and the lake writers (SpecHist)           *)
(***************************************************************************)
\* the last step was a day of get_history_data whose write completed
HistoryWritten == lastOp.kind = "history" /\ ~io.raised

\* the rows this step wrote into the analytics table
WrittenNow == {p \in DOMAIN analytics_glass_stats :
                  analytics_glass_stats[p].created_at = now}

\* two history rows of the day carry the same product_id
DuplicateProducts(files, D) ==
    \E h1, h2 \in DayHistory(files, D) : h1 /= h2 /\ h1.product_id = h2.product_id

\* C12: a malformed panel address never fails the day: when the statement
\* did not complete, a cause other than the addresses was present; and when
\* it completed, the panel_map of a written row marks exactly the indices
\* of the well-formed addresses of its product.
C12_MalformedTolerated ==
    HistoryWritten =>
        /\ \/ lastOp.ok
           \/ StatementRaises(buckets, ReadAll(inspection), lastOp.day)
           \/ DuplicateProducts(buckets, lastOp.day)
        /\ lastOp.ok =>
               \A p \in WrittenNow : \A idx \in 1..GridCells :
                   analytics_glass_stats[p].panel_map[idx] = 1 <=>
                       \E r \in AddressGroup(ReadAll(inspection), p) :
                           EncodeIndex(r.panel_addr) = EncValue(idx)

\* the number a two-digit text denotes
TwoDigitValue(b) == (IndexOf(Digits, b[1]) - 1) * 10 + (IndexOf(Digits, b[2]) - 1)

AllBucketRows == UNION {buckets[k] : k \in DOMAIN buckets}

\* C13: every stored row sits in a bucket named by exactly two decimal
\* digits that denote MD5(product_id) mod 100; rows of one product_id share
\* one bucket over all runs; a row without a string identifier, or of a
\* batch without the product_id column, sits in bucket "00".
C13_BucketOfProduct ==
    /\ \A k \in DOMAIN buckets : \A r \in buckets[k] :
           /\ r.bucket_id = k[2]
           /\ Len(k[2]) = 2 /\ IsDigit(k[2][1]) /\ IsDigit(k[2][2])
           /\ (r.product_id_col /\ r.product_id /= NULL) =>
                  TwoDigitValue(k[2]) = Md5Tail(r.product_id) % 100
           /\ (~r.product_id_col \/ r.product_id = NULL) => k[2] = <<"0", "0">>
    /\ \A r1, r2 \in AllBucketRows :
           (r1.product_id_col /\ r2.product_id_col /\ r1.product_id = r2.product_id)
               => r1.bucket_id = r2.bucket_id

\* C13 witness: G1M1 was written on both days, each time into bucket 75,
\* and a batch without the product_id column went to bucket 00.
C13_Witness ==
    /\ lastOp.kind = "history"
    /\ \E k \in DOMAIN buckets :
           k[2] = <<"7", "5">> /\ k[3] = 1 /\ \E r \in buckets[k] : r.product_id = P1
    /\ \E k \in DOMAIN buckets :
           k[2] = <<"7", "5">> /\ k[3] = 2 /\ \E r \in buckets[k] : r.product_id = P1
    /\ \E k \in DOMAIN buckets :
           k[2] = <<"0", "0">> /\ \E r \in buckets[k] : ~r.product_id_col

\* the rows stored for a date in the model/bucket layout
DateRows(files, d) == UNION {files[k] : k \in {x \in DOMAIN files : x[3] = d}}

\* C14: after a completed write of a non-empty batch for a date, the rows
\* stored for that dataset and date are exactly the rows of that batch, in
\* the year/month layout and in the model/bucket layout.
C14_RewriteReplaces ==
    [][/\ (io'.writer = "save_to_parquet" /\ io'.table_type = "inspection"
              /\ ~io'.raised /\ io'.df /= {} /\ lastOp'.kind = "ingest")
            => inspection'[io'.day] = io'.df
       /\ (io'.writer = "save_to_parquet" /\ io'.table_type = "history"
              /\ ~io'.raised /\ io'.df /= {} /\ lastOp'.kind = "ingest")
            => history'[io'.day] = io'.df
       /\ (io'.writer = "write_to_dataset" /\ ~io'.raised /\ io'.df /= {}
              /\ lastOp'.kind = "history")
            => DateRows(buckets', io'.day) = Prepared(io'.df)]_vars

\* C15: a writer step given an empty batch raises nothing and changes no
\* file of the lake and no statistics row.
C15_EmptyBatchNoOp ==
    [][(lastOp'.kind \in {"ingest", "history"} /\ io'.df = {}) =>
          /\ ~io'.raised
          /\ UNCHANGED <<lakeVars, buckets, glass_stats, analytics_glass_stats>>]_vars

\* C16: when the file write raised, what the caller of the writer gets
\* back differs from what it gets back after a successful write.
C16_FailureReported == io.raised => io.returned = "exception"

\* the inspection rows the aggregation for day D may use
Relevant(D) ==
    {r \in ReadAll(inspection) :
        /\ r.facility_code = Facility
        /\ DayOf(r.inspection_end_ymdhms) = D
        /\ r.defect_name /= NULL}

\* C19: what a completed run for day D wrote is what the same statement
\* yields over the day's inspection rows with a defect name alone: rows of
\* other days or without defect name change nothing.
C19_OnlyDayInspection ==
    (lastOp.kind = "history" /\ lastOp.ok) =>
        \A p \in WrittenNow :
            LET row == analytics_glass_stats[p]
                I == Relevant(lastOp.day)
            IN /\ row.total_defects = Cardinality(defect_indices(I, p))
               /\ \A idx \in 1..GridCells :
                      row.panel_map[idx] = 1 <=> idx \in defect_indices(I, p)
               /\ Len(row.panel_addrs) = Cardinality(AddressGroup(I, p))
               /\ {row.panel_addrs[i] : i \in 1..Len(row.panel_addrs)} =
                      {r.panel_addr : r \in AddressGroup(I, p)}

(***************************************************************************)
(* Further claims about run_daily_analysis (specification Spec)            *)
(***************************************************************************)
\* C20: every row a completed run for day D wrote has its lot, process and
\* equipment fields from a history row of its product whose move-in time
\* falls on day D, or has them NULL when the product has no such row.
C20_OnlyDayHistory ==
    AnalysisDone =>
        \A k \in DOMAIN glass_stats :
            glass_stats[k].created_at = now =>
                LET day == {h \in target_history :
                               /\ h.product_id = k[1]
                               /\ DayOf(h.move_in_ymdhms) = lastOp.day}
                IN IF day = {}
                   THEN /\ glass_stats[k].lot_id = NULL
                        /\ glass_stats[k].equipment_line_id = NULL
                   ELSE \E h \in day :
                            /\ glass_stats[k].lot_id = h.lot_id
                            /\ glass_stats[k].process_code = h.process_code
                            /\ glass_stats[k].equipment_line_id = h.equipment_line_id
                            /\ glass_stats[k].equipment_machine_id = h.equipment_machine_id
                            /\ glass_stats[k].equipment_path_id = h.equipment_path_id

(***************************************************************************)
(* Claims about the date loops (specification SpecLoop)                    *)
(***************************************************************************)
\* the days start..end in ascending order; empty when start > end
DayRange(s, e) == [i \in 1..(e - s + 1) |-> s + i - 1]

Processed(r) == {r.days[i] : i \in 1..Len(r.days)}

\* C17: a day whose processing raised never ends the loop: the next
\* iteration is for the following day, and a loop that has returned has
\* processed every day of its range, the days after a failed day included.
C17_FailedDayDoesNotStop ==
    /\ (run.job \in LoopJobs /\ run.done) =>
           \A d \in run.start..run.end : d \in Processed(run)
    /\ (run.job \in LoopJobs /\ ~run.done) =>
           /\ run.curr = run.start + Len(run.days)
           /\ \A d \in run.failed : d < run.curr /\ d \in Processed(run)

\* C17 witness: get_history_data over days 1..2, day 1 raised, day 2 was
\* processed and its analysis completed, and the loop returned.
C17_Witness ==
    /\ run.job = "get_history_data"
    /\ run.done
    /\ run.start = 1 /\ run.end = 2
    /\ run.failed = {1}
    /\ run.days = <<1, 2>>
    /\ lastOp.kind = "history" /\ lastOp.day = 2 /\ lastOp.ok

\* C18: an entry point that has returned processed exactly the days
\* start..end, each once, in ascending order, and none when start > end.
C18_EveryDayOnce ==
    (run.job /= "none" /\ run.done) => run.days = DayRange(run.start, run.end)

(***************************************************************************)
(* Claims about the configuration gate (specification SpecCfg)             *)
(***************************************************************************)
\* the configuration could not be loaded, or lacks the table mapping the
\* entry point needs (run_download_job: every table it could fetch)
ConfigUnusable(job) ==
    \/ ~config.loaded
    \/ job = "get_history_data" /\ ~config.history_table
    \/ job = "get_insp_data" /\ ~config.inspection_table
    \/ job = "run_download_job" /\ ~config.history_table /\ ~config.inspection_table

\* C21: an entry point invoked while the configuration cannot be loaded or
\* lacks its required table mapping aborts before any I/O: it issues no
\* remote-store query, writes no lake file and writes nothing to the
\* statistics store.
C21_ConfigAbortsBeforeIO ==
    (effects.job /= "none" /\ ConfigUnusable(effects.job)) => effects.io = {}

\* rows were aggregated into glass_stats although no configuration was loaded
C21_StatsWrittenWithoutConfig == ~config.loaded /\ glass_stats /= Empty

(***************************************************************************)
(* Claims about recovery by re-run (specification SpecRerun)               *)
(***************************************************************************)
\* the compared contents of a glass_stats table
Contents(table) ==
    [k \in DOMAIN table |->
        <<table[k].total_defects, table[k].panel_map, table[k].panel_addrs>>]

\* the tables the statement of day D can leave, run on table T
DayOutcomes(T, D) ==
    IF NoFiles(inspection) \/ NoFiles(history)
    THEN {T}
    ELSE UNION {LET rows == AnalysisRows(D, ord)
                IN (IF HasDuplicateKeys(rows) THEN {T} ELSE {})
                   \cup {Upsert(T, pick, 0) : pick \in Picks(rows)} :
                ord \in ListOrders(inner_stats(D))}

\* the tables one uninterrupted run over d..e can leave, started on table T
RECURSIVE RangeOutcomes(_, _, _)
RangeOutcomes(T, d, e) ==
    IF d > e THEN {T}
    ELSE UNION {RangeOutcomes(T2, d + 1, e) : T2 \in DayOutcomes(T, d)}

\* the second run of the range returned
RerunCompleted == run.job = "run_daily_analysis" /\ run.attempt = 2 /\ run.done

\* C22: after a run over a date range was interrupted and the same range was
\* run again to completion, glass_stats (keys, total_defects, panel_map,
\* panel_addrs) equals what one uninterrupted run of the range leaves.
C22_RerunRecovers ==
    RerunCompleted =>
        Contents(glass_stats) \in
            {Contents(T) : T \in RangeOutcomes(Empty, run.start, run.end)}

(***************************************************************************)
(* Claims about candidate rows of one key (specification Spec)             *)
(***************************************************************************)
\* the statement of day D proposes several rows for one (product_id,
\* defect_name) key: the product has several history rows
DuplicateCandidates(D) ==
    /\ ~NoFiles(inspection)
    /\ ~NoFiles(history)
    /\ \E ord \in ListOrders(inner_stats(D)) : HasDuplicateKeys(AnalysisRows(D, ord))

\* C23: when one aggregation run yields several candidate rows for the same
\* (product_id, defect_name) key, the run does not fail and the table it
\* leaves is the same for every execution on the same inputs.
C23_DuplicateKeysDeterministic ==
    [][(lastOp'.kind = "analysis" /\ lastOp'.day \in Days
            /\ DuplicateCandidates(lastOp'.day))
        => (lastOp'.ok /\ Cardinality(DayOutcomes(glass_stats, lastOp'.day)) = 1)]_vars

(***************************************************************************)
(* Claims about the totals of a first run (specification Spec)             *)
(***************************************************************************)
\* the (product_id, defect_name) pairs with counted inspection rows on day D
DayPairs(D) ==
    {<<r.product_id, r.defect_name>> : r \in {q \in target_inspection(D) : q.panel_addr /= NULL}}

\* an aggregation step of a day over a lake with files, on an empty table
FirstRun == glass_stats = Empty /\ lastOp'.kind = "analysis" /\ lastOp'.day \in Days
            /\ ~NoFiles(inspection) /\ ~NoFiles(history)

\* C24: after one aggregation run for date D on an empty glass_stats table,
\* every (product_id, defect_name) pair with inspection rows on D has
\* total_defects equal to the number of that day's inspection rows of the
\* pair, whether the product has zero, one or several history rows.
C24_TotalIsDayCount ==
    [][FirstRun =>
          \A k \in DayPairs(lastOp'.day) :
              /\ k \in DOMAIN glass_stats'
              /\ glass_stats'[k].total_defects = Cardinality(DayRows(k, lastOp'.day))]_vars

\* the same for the steps whose statement completed
C24_TotalOfCompletedRun ==
    [][(FirstRun /\ lastOp'.ok) =>
          \A k \in DayPairs(lastOp'.day) :
              /\ k \in DOMAIN glass_stats'
              /\ glass_stats'[k].total_defects = Cardinality(DayRows(k, lastOp'.day))]_vars

(***************************************************************************)
(* Claims about the stored totals (specification Spec)                     *)
(***************************************************************************)
\* the sum of the entries of a list of counts
SumOfList(counts) == SumOver(DOMAIN counts, counts)

\* C25: in every reachable state of the glass_stats table written by
\* run_daily_analysis, after any runs and reruns over any dates, every row
\* has total_defects equal to the sum of the entries of its panel_map.
C25_TotalIsSumOfMap ==
    \A k \in DOMAIN glass_stats :
        glass_stats[k].total_defects = SumOfList(glass_stats[k].panel_map)

\* C25 witness: a row that was accumulated by a rerun, with an address
\* counted more than once: its panel_map has several entries, one above 1.
C25_Witness ==
    /\ lastOp.kind = "analysis" /\ lastOp.ok /\ lastOp.rerun
    /\ \E k \in DOMAIN glass_stats :
        /\ Len(glass_stats[k].panel_map) >= 3
        /\ \E i \in DOMAIN glass_stats[k].panel_map : glass_stats[k].panel_map[i] >= 2
        /\ glass_stats[k].total_defects = SumOfList(glass_stats[k].panel_map)
        /\ glass_stats[k].total_defects >= 4

(***************************************************************************)
(* Claims about reruns of get_history_data (specification SpecHist)        *)
(***************************************************************************)
\* a completed run of a day that follows a completed run of the same day
\* and found the lake as that run left it
HistRerun ==
    /\ lastOp.kind = "history" /\ lastOp.ok
    /\ lastOp'.kind = "history" /\ lastOp'.ok /\ lastOp'.rerun
    /\ buckets' = buckets
    /\ inspection' = inspection

\* panel_map has one entry per grid cell, each 0 or 1
GridShaped(row) ==
    /\ Len(row.panel_map) = GridCells
    /\ \A i \in DOMAIN row.panel_map : row.panel_map[i] \in {0, 1}

\* two lists hold the same values the same number of times
SameBag(s, t) ==
    /\ Len(s) = Len(t)
    /\ \A i \in DOMAIN s :
           Cardinality({j \in DOMAIN s : s[j] = s[i]})
               = Cardinality({j \in DOMAIN t : t[j] = s[i]})

\* C26: re-running the same day of get_history_data over an unchanged lake
\* is idempotent: total_defects, panel_map and panel_addrs of every row
\* equal the values after the first run, and panel_map always has exactly
\* 260 entries, each 0 or 1.
C26_RerunIdempotent ==
    [][/\ \A k \in DOMAIN analytics_glass_stats' :
              GridShaped(analytics_glass_stats'[k])
       /\ HistRerun =>
              /\ DOMAIN analytics_glass_stats' = DOMAIN analytics_glass_stats
              /\ \A k \in DOMAIN analytics_glass_stats :
                     /\ analytics_glass_stats'[k].total_defects
                            = analytics_glass_stats[k].total_defects
                     /\ analytics_glass_stats'[k].panel_map
                            = analytics_glass_stats[k].panel_map
                     /\ analytics_glass_stats'[k].panel_addrs
                            = analytics_glass_stats[k].panel_addrs]_vars

\* C26, amended: the rerun leaves total_defects and panel_map of every row
\* equal and panel_addrs with the same addresses, in an order that may
\* differ; panel_map always has 260 entries, each 0 or 1.
C26_RerunIdempotentUpToOrder ==
    [][/\ \A k \in DOMAIN analytics_glass_stats' :
              GridShaped(analytics_glass_stats'[k])
       /\ HistRerun =>
              /\ DOMAIN analytics_glass_stats' = DOMAIN analytics_glass_stats
              /\ \A k \in DOMAIN analytics_glass_stats :
                     /\ analytics_glass_stats'[k].total_defects
                            = analytics_glass_stats[k].total_defects
                     /\ analytics_glass_stats'[k].panel_map
                            = analytics_glass_stats[k].panel_map
                     /\ SameBag(analytics_glass_stats'[k].panel_addrs,
                                analytics_glass_stats[k].panel_addrs)]_vars

\* C26 witness: a day was run twice over the same lake and a product with
\* two observed addresses has its row, with two cells set
C26_Witness ==
    /\ lastOp.kind = "history" /\ lastOp.ok /\ lastOp.rerun
    /\ io.df = {}
    /\ \E k \in DOMAIN analytics_glass_stats :
        /\ analytics_glass_stats[k].total_defects = 2
        /\ Len(analytics_glass_stats[k].panel_addrs) = 2
        /\ GridShaped(analytics_glass_stats[k])

(***************************************************************************)
(* Claims about DynamoDB.query (specifications SpecScan, SpecScanLive)     *)
(***************************************************************************)
\* the items of the pages 1..n, in page order
RECURSIVE ItemsOfPages(_, _)
ItemsOfPages(pages, n) ==
    IF n = 0 THEN <<>> ELSE ItemsOfPages(pages, n - 1) \o pages[n]

\* what a returned call returned: nothing after a failed request, else the
\* items of all pages in page order, each page requested exactly once
ReturnedAllPages ==
    scan.returned =>
        IF scan.raised
        THEN scan.Items = <<>>
        ELSE /\ scan.response.LastEvaluatedKey = 0
             /\ scan.requests = [i \in 1..Len(scan.pages) |-> i - 1]
             /\ scan.Items = ItemsOfPages(scan.pages, Len(scan.pages))

\* a response without continuation cursor was received
LastPageReceived == scan.response.received /\ scan.response.LastEvaluatedKey = 0

\* C27: the read loop terminates once a response carries no continuation
\* cursor and then returns the items of all pages in page order, each page
\* exactly once; if any page request fails, the call returns an empty item
\* list (the items of earlier pages are discarded) instead of raising.
C27_PagedRead ==
    /\ []ReturnedAllPages
    /\ LastPageReceived ~> scan.returned

\* C27 witness: three pages were read and their items returned in order
C27_Witness ==
    /\ scan.returned /\ ~scan.raised
    /\ Len(scan.pages) = 3
    /\ scan.pages[1] /= <<>> /\ scan.pages[3] /= <<>> /\ scan.pages[1] /= scan.pages[3]
    /\ scan.Items = scan.pages[1] \o scan.pages[2] \o scan.pages[3]

\* C27 witness of the failure case: the third request raised after two
\* pages with items were read, and the call returned no items
C27_FailureWitness ==
    /\ scan.returned /\ scan.raised
    /\ Len(scan.requests) = 3
    /\ scan.data /= <<>>
    /\ scan.Items = <<>>

====
